---- MODULE Spec2Model ----
(***************************************************************************)
(* Model of the ms-parser library: parse (duration string -> milliseconds),*)
(* format (milliseconds -> duration string) and the combined entry point   *)
(* ms.  The library is a set of pure functions; the state machine below    *)
(* records one call at a time: which function was called, its arguments    *)
(* and the outcome (returned value or thrown Error).                       *)
(*                                                                         *)
(* JavaScript strings are TLA+ strings (Len, \o and SubSeq act on them).   *)
(* A JavaScript number is a record                                         *)
(*     [cls, neg, hi, lo]                                                  *)
(* cls is "finite", "NaN" or "Infinity"; a finite number has the value     *)
(*     (-1)^neg * (hi * Limb + lo / Radix)        with 0 <= lo < Limb*Radix*)
(* i.e. decimal fixed point with one fractional digit, split in two limbs  *)
(* because 32-bit integers cannot hold YEAR.  Every operation on numbers   *)
(* below is exact on this representation; within the model's range the     *)
(* double arithmetic of the program is exact as well.  Zero is kept        *)
(* unsigned (JavaScript's -0 prints and compares as 0).                    *)
(***************************************************************************)
EXTENDS Integers, Sequences, FiniteSets, TLC

VARIABLES
    op,      \* the function called last: "none", "parse", "format" or "ms"
    arg,     \* the value it was called with (a JavaScript value)
    opts,    \* the options object it was called with
    ret,     \* the outcome of the call
    calls,   \* the exported functions entered during the call, in order
    prev     \* the earlier call whose returned value is arg, if any

vars == <<op, arg, opts, ret, calls, prev>>

----------------------------------------------------------------------------
(* Numbers *)

Radix == 10
Limb == Radix * Radix * Radix
LoRange == Limb * Radix

Finite(neg, hi, lo) ==
    [cls |-> "finite",
     neg |-> neg /\ (hi + lo \div LoRange > 0 \/ lo % LoRange > 0),
     hi  |-> hi + lo \div LoRange,
     lo  |-> lo % LoRange]

NaN == [cls |-> "NaN", neg |-> FALSE, hi |-> 0, lo |-> 0]
Infinity == [cls |-> "Infinity", neg |-> FALSE, hi |-> 0, lo |-> 0]
NegInfinity == [cls |-> "Infinity", neg |-> TRUE, hi |-> 0, lo |-> 0]

\* the number with the integer value i
Num(i) ==
    IF i >= 0 THEN Finite(FALSE, i \div Limb, (i % Limb) * Radix)
              ELSE Finite(TRUE, (-i) \div Limb, ((-i) % Limb) * Radix)

isFinite(x) == x.cls = "finite"

MathAbs(x) == [x EXCEPT !.neg = FALSE]

Negate(x) == IF isFinite(x) THEN Finite(~x.neg, x.hi, x.lo)
                            ELSE [x EXCEPT !.neg = (x.cls = "Infinity") /\ ~x.neg]

\* a >= b on finite numbers of the same sign class (both non-negative)
GreaterEq(a, b) == a.hi > b.hi \/ (a.hi = b.hi /\ a.lo >= b.lo)

----------------------------------------------------------------------------
(* Time constants in milliseconds *)

SECOND == 1000
MINUTE == SECOND * 60
HOUR == MINUTE * 60
DAY == HOUR * 24
WEEK == DAY * 7
\* DAY * 365.25 = DAY * 365 + DAY / 4, a whole number of Limbs
YEAR == Finite(FALSE, (DAY \div Limb) * 365 + (DAY \div Limb) \div 4, 0)

\* num * K for a time constant K (a number that is a whole multiple of Limb)
Times(num, K) ==
    Finite(num.neg,
           num.hi * K.hi * Limb + K.hi * (num.lo \div Radix)
               + (K.hi * (num.lo % Radix)) \div Radix,
           ((K.hi * (num.lo % Radix)) % Radix) * Limb)

\* ms / unit for a time constant unit: the exact quotient, as its sign, its
\* integer part and the remainder over the unit in tenths
Divide(ms, unit) ==
    [neg  |-> ms.neg,
     int  |-> ms.hi \div (unit \div Limb),
     rem  |-> (ms.hi % (unit \div Limb)) * LoRange + ms.lo,
     unit |-> unit * Radix]

\* Math.floor in place of Math.round
MathFloorForRound(q) ==
    IF q.neg THEN Negate(Num(q.int + (IF q.rem > 0 THEN 1 ELSE 0)))
             ELSE Num(q.int)

\* Math.round(x) = floor(x + 0.5): ties go towards +Infinity
MathRound(q) ==
    IF q.neg THEN Negate(Num(q.int + (IF 2 * q.rem > q.unit THEN 1 ELSE 0)))
             ELSE Num(q.int + (IF 2 * q.rem >= q.unit THEN 1 ELSE 0))

----------------------------------------------------------------------------
(* Strings *)

CharAt(s, i) == SubSeq(s, i, i)
Slice(s, from, to) ==
    IF from > to \/ from > Len(s) THEN ""
    ELSE SubSeq(s, from, IF to > Len(s) THEN Len(s) ELSE to)

Digits == "0123456789"
UpperCase == "ABCDEFGHIJKLMNOPQRSTUVWXYZ"
LowerCase == "abcdefghijklmnopqrstuvwxyz"
WhiteSpace == {" ", "\t", "\n"}

IndexIn(alphabet, c) ==
    IF \E i \in 1..Len(alphabet) : CharAt(alphabet, i) = c
    THEN CHOOSE i \in 1..Len(alphabet) : CharAt(alphabet, i) = c
    ELSE 0

IsDigit(c) == IndexIn(Digits, c) > 0
IsLetter(c) == IndexIn(UpperCase, c) > 0 \/ IndexIn(LowerCase, c) > 0

RECURSIVE toLowerCase(_)
toLowerCase(s) ==
    IF s = "" THEN ""
    ELSE LET c == CharAt(s, 1)
             k == IndexIn(UpperCase, c)
         IN  (IF k > 0 THEN CharAt(LowerCase, k) ELSE c)
                 \o toLowerCase(Slice(s, 2, Len(s)))

\* String.prototype.trim
RECURSIVE trimStart(_)
trimStart(s) ==
    IF s # "" /\ CharAt(s, 1) \in WhiteSpace THEN trimStart(Slice(s, 2, Len(s)))
    ELSE s

RECURSIVE trimEnd(_)
trimEnd(s) ==
    IF s # "" /\ CharAt(s, Len(s)) \in WhiteSpace THEN trimEnd(Slice(s, 1, Len(s) - 1))
    ELSE s

trim(s) == trimEnd(trimStart(s))

AllDigits(s) == \A i \in 1..Len(s) : IsDigit(CharAt(s, i))
AllSpaces(s) == \A i \in 1..Len(s) : CharAt(s, i) = " "

\* the decimal digits of a natural number
RECURSIVE NatToString(_)
NatToString(n) ==
    IF n < Radix THEN CharAt(Digits, n + 1)
    ELSE NatToString(n \div Radix) \o CharAt(Digits, (n % Radix) + 1)

\* the value of a string of decimal digits
RECURSIVE DigitsValue(_)
DigitsValue(s) ==
    IF s = "" THEN 0
    ELSE DigitsValue(Slice(s, 1, Len(s) - 1)) * Radix
             + (IndexIn(Digits, CharAt(s, Len(s))) - 1)

\* Number::toString, as string concatenation applies it to a number
NumberToString(x) ==
    IF x.cls = "NaN" THEN "NaN"
    ELSE IF x.cls = "Infinity" THEN (IF x.neg THEN "-Infinity" ELSE "Infinity")
    ELSE (IF x.neg THEN "-" ELSE "")
             \o (IF x.hi = 0 THEN NatToString(x.lo \div Radix)
                 ELSE NatToString(x.hi)
                          \o Slice(NatToString(Limb + x.lo \div Radix), 2, 4))
             \o (IF x.lo % Radix = 0 THEN ""
                 ELSE "." \o CharAt(Digits, (x.lo % Radix) + 1))

\* parseFloat on a string that matches -?(?:\d+)?\.?\d+ and has at most one
\* digit after the point
parseFloat(s) ==
    LET neg  == s # "" /\ CharAt(s, 1) = "-"
        body == IF neg THEN Slice(s, 2, Len(s)) ELSE s
        dot  == IndexIn(body, ".")
        ip   == IF dot > 0 THEN Slice(body, 1, dot - 1) ELSE body
        fp   == IF dot > 0 THEN Slice(body, dot + 1, Len(body)) ELSE ""
        v    == DigitsValue(ip)
    IN  Finite(neg, v \div Limb, (v % Limb) * Radix + DigitsValue(Slice(fp, 1, 1)))

----------------------------------------------------------------------------
(* JavaScript values, options objects and the outcome of a call *)

Str(s) == [type |-> "string", str |-> s, num |-> NaN]
Number(x) == [type |-> "number", str |-> "", num |-> x]
Undefined == [type |-> "undefined", str |-> "", num |-> NaN]
Null == [type |-> "object", str |-> "null", num |-> NaN]
Object == [type |-> "object", str |-> "{}", num |-> NaN]
True == [type |-> "boolean", str |-> "true", num |-> NaN]

\* an options object: maxLength (when the property is present) and long
\* (absent and false are both falsy)
NoOptions == [hasMaxLength |-> FALSE, maxLength |-> 0, long |-> FALSE]
MaxLengthOption(n) == [hasMaxLength |-> TRUE, maxLength |-> n, long |-> FALSE]
LongOption == [hasMaxLength |-> FALSE, maxLength |-> 0, long |-> TRUE]

Return(v) == [threw |-> FALSE, value |-> v, message |-> ""]
Throw(msg) == [threw |-> TRUE, value |-> Undefined, message |-> msg]
NoCall == [threw |-> FALSE, value |-> Undefined, message |-> "no call"]

----------------------------------------------------------------------------
(* parse *)

DEFAULT_MAX_LENGTH == 100

\* x? in the pattern
Optional(w) == {w, w \o "s"}

\* the unit alternation of the pattern, which is matched ignoring case
UnitAlternation ==
    Optional("millisecond") \cup Optional("msec") \cup {"ms"}
        \cup Optional("second") \cup Optional("sec") \cup {"s"}
        \cup Optional("minute") \cup Optional("min") \cup {"m"}
        \cup Optional("hour") \cup Optional("hr") \cup {"h"}
        \cup Optional("day") \cup {"d"}
        \cup Optional("week") \cup {"w"}
        \cup Optional("year") \cup Optional("yr") \cup {"y"}

\* -?(?:\d+)?\.?\d+
MatchesNumber(s) ==
    LET body == IF s # "" /\ CharAt(s, 1) = "-" THEN Slice(s, 2, Len(s)) ELSE s
    IN  \E i \in 0..Len(body) : \E dot \in 0..1 :
            /\ i + dot < Len(body)
            /\ AllDigits(Slice(body, 1, i))
            /\ dot = 1 => CharAt(body, i + 1) = "."
            /\ AllDigits(Slice(body, i + dot + 1, Len(body)))

\* " ?" in place of " *"
MatchesGapOptionalSpace(s) == s \in {"", " "}

\* " *" in the pattern
MatchesGap(s) == AllSpaces(s)

\* ([a-z]+)? in place of the alternation
MatchesUnitAnyLetters(s) ==
    \A i \in 1..Len(s) :
        IndexIn(UpperCase, CharAt(s, i)) > 0 \/ IndexIn(LowerCase, CharAt(s, i)) > 0

\* (milliseconds?|...|y)? with the i flag
MatchesUnit(s) == s = "" \/ toLowerCase(s) \in UnitAlternation

\* /^(-?(?:\d+)?\.?\d+) *(milliseconds?|...|yrs?|y)?$/i.exec(t): the end of
\* group 1 and the start of group 2, or no match
TimePattern(t) ==
    LET splits == {ij \in (0..Len(t)) \X (0..Len(t)) :
                     /\ ij[1] <= ij[2]
                     /\ MatchesGap(Slice(t, ij[1] + 1, ij[2]))
                     /\ MatchesUnit(Slice(t, ij[2] + 1, Len(t)))
                     /\ MatchesNumber(Slice(t, 1, ij[1]))}
    IN  IF splits = {} THEN [matched |-> FALSE, g1 |-> "", g2 |-> ""]
        ELSE LET ij == CHOOSE x \in splits : \A y \in splits : x[2] >= y[2]
             IN  [matched |-> TRUE,
                  g1 |-> Slice(t, 1, ij[1]),
                  g2 |-> Slice(t, ij[2] + 1, Len(t))]

\* >= in place of >
TooLongAtLimit(value, maxLength) == Len(value.str) >= maxLength

\* value.length > maxLength
TooLong(value, maxLength) == Len(value.str) > maxLength

\* match[2] || 'ms', with toLowerCase left out
UnitAsWritten(g2) == IF g2 # "" THEN g2 ELSE "ms"

\* (match[2] || 'ms').toLowerCase()
UnitOrDefault(g2) == toLowerCase(IF g2 # "" THEN g2 ELSE "ms")

\* the switch over the lower-cased unit
Convert(num, unit) ==
    IF unit \in {"years", "year", "yrs", "yr", "y"}
        THEN Return(Number(Times(num, YEAR)))
    ELSE IF unit \in {"weeks", "week", "w"}
        THEN Return(Number(Times(num, Num(WEEK))))
    ELSE IF unit \in {"days", "day", "d"}
        THEN Return(Number(Times(num, Num(DAY))))
    ELSE IF unit \in {"hours", "hour", "hrs", "hr", "h"}
        THEN Return(Number(Times(num, Num(HOUR))))
    ELSE IF unit \in {"minutes", "minute", "mins", "min", "m"}
        THEN Return(Number(Times(num, Num(MINUTE))))
    ELSE IF unit \in {"seconds", "second", "secs", "sec", "s"}
        THEN Return(Number(Times(num, Num(SECOND))))
    ELSE IF unit \in {"milliseconds", "millisecond", "msecs", "msec", "ms"}
        THEN Return(Number(num))
    ELSE Throw("Unknown unit: \"" \o unit \o "\"")

parse(value, options) ==
    IF value.type # "string" \/ Len(value.str) = 0
        THEN Throw("Value must be a non-empty string")
    ELSE
    LET maxLength == IF options.hasMaxLength THEN options.maxLength
                                             ELSE DEFAULT_MAX_LENGTH
    IN
    IF TooLong(value, maxLength)
        THEN Throw("String too long. Maximum length is "
                       \o NatToString(maxLength) \o " characters")
    ELSE
    LET match == TimePattern(trim(value.str)) IN
    IF ~match.matched
        THEN Throw("Invalid time format: \"" \o value.str \o "\"")
    ELSE
    LET num == parseFloat(match.g1) IN
    IF ~isFinite(num)
        THEN Throw("Invalid number: \"" \o match.g1 \o "\"")
    ELSE Convert(num, UnitOrDefault(match.g2))

----------------------------------------------------------------------------
(* format *)

\* > in place of >=
ReachesStrictly(absMs, unit) == ~GreaterEq(Num(unit), absMs)

\* absMs >= unit, the test that selects the output unit
Reaches(absMs, unit) == GreaterEq(absMs, Num(unit))

\* > in place of >=
isPluralStrictly(absMs, unit) == ~GreaterEq(Num((unit * 3) \div 2), absMs)

\* absMs >= unit * 1.5
isPlural(absMs, unit) == GreaterEq(absMs, Num((unit * 3) \div 2))

formatShort(ms) ==
    LET absMs == MathAbs(ms) IN
    IF Reaches(absMs, DAY) THEN NumberToString(MathRound(Divide(ms, DAY))) \o "d"
    ELSE IF Reaches(absMs, HOUR) THEN NumberToString(MathRound(Divide(ms, HOUR))) \o "h"
    ELSE IF Reaches(absMs, MINUTE) THEN NumberToString(MathRound(Divide(ms, MINUTE))) \o "m"
    ELSE IF Reaches(absMs, SECOND) THEN NumberToString(MathRound(Divide(ms, SECOND))) \o "s"
    ELSE NumberToString(ms) \o "ms"

plural(ms, absMs, unit, name) ==
    NumberToString(MathRound(Divide(ms, unit))) \o " " \o name
        \o (IF isPlural(absMs, unit) THEN "s" ELSE "")

formatLong(ms) ==
    LET absMs == MathAbs(ms) IN
    IF Reaches(absMs, DAY) THEN plural(ms, absMs, DAY, "day")
    ELSE IF Reaches(absMs, HOUR) THEN plural(ms, absMs, HOUR, "hour")
    ELSE IF Reaches(absMs, MINUTE) THEN plural(ms, absMs, MINUTE, "minute")
    ELSE IF Reaches(absMs, SECOND) THEN plural(ms, absMs, SECOND, "second")
    ELSE NumberToString(ms) \o " ms"

format(ms, options) ==
    IF ms.type # "number" \/ ~isFinite(ms.num)
        THEN Throw("Value must be a finite number")
    ELSE Return(Str(IF options.long THEN formatLong(ms.num) ELSE formatShort(ms.num)))

----------------------------------------------------------------------------
(* ms, the combined entry point *)

\* the typeof value === 'number' test left out
RouteWithoutNumberTest(value) ==
    IF value.type = "string" THEN "parse" ELSE "format"

\* the function ms hands the value to, by typeof value
Route(value) ==
    IF value.type = "string" THEN "parse"
    ELSE IF value.type = "number" THEN "format"
    ELSE "throw"

ms(value, options) ==
    IF Route(value) = "parse" THEN parse(value, options)
    ELSE IF Route(value) = "format" THEN format(value, options)
    ELSE Throw("Value must be a string or number")

----------------------------------------------------------------------------
(* The inputs of the calls *)

MaxSpaces == 2
MaxLimit == 4

RECURSIVE Repeat(_, _)
Repeat(c, n) == IF n = 0 THEN "" ELSE c \o Repeat(c, n - 1)

Capitalize(w) == CharAt(UpperCase, IndexIn(LowerCase, CharAt(w, 1))) \o Slice(w, 2, Len(w))

RECURSIVE toUpperCase(_)
toUpperCase(s) ==
    IF s = "" THEN ""
    ELSE LET c == CharAt(s, 1)
             k == IndexIn(LowerCase, c)
         IN  (IF k > 0 THEN CharAt(UpperCase, k) ELSE c)
                 \o toUpperCase(Slice(s, 2, Len(s)))

NumberTexts == {"1", "2", "10", "-1", "1.5", ".5", "-0.5", "0", "-2.5"}

UnitTexts ==
    UnitAlternation
        \cup {toUpperCase(u) : u \in UnitAlternation}
        \cup {Capitalize(u) : u \in UnitAlternation}
        \cup {"", "x", "fortnights", "hs", "mo", "Q"}

ParseStrings ==
    {n \o Repeat(" ", k) \o u : n \in NumberTexts, k \in 0..MaxSpaces, u \in UnitTexts}
        \cup {" 1h", "1h ", "\t2 min\n", " ", "  1  h  ", " 1x ", "\t5 fortnights"}
        \cup {"", "invalid", "h", "1.", "1.5.5", "--1", "1h1", "1 h m", "+1h", "1e3",
              "1\th", "- 1h", "1,5h", "1h!", ".", "-"}
        \cup {Repeat("0", k) \o "1h" :
                 k \in (DEFAULT_MAX_LENGTH - 3)..(DEFAULT_MAX_LENGTH - 1)}
        \cup {" " \o Repeat("0", DEFAULT_MAX_LENGTH - 2) \o "1h",
              Repeat("a", DEFAULT_MAX_LENGTH), Repeat("a", DEFAULT_MAX_LENGTH + 1)}

ParseOptions == {NoOptions} \cup {MaxLengthOption(n) : n \in 0..MaxLimit}

MaxHalfUnits == 6

\* the number (-1)^neg * (i + t / Radix), for a natural i and tenths t
Tenths(neg, i, t) == Finite(neg, i \div Limb, (i % Limb) * Radix + t)

\* numbers around every half multiple of every time constant, both signs
FormatNumbers ==
    {Tenths(neg, h * (K \div 2) + 1, t) :
        neg \in BOOLEAN, h \in 1..MaxHalfUnits, t \in {-11, -10, -9, 0},
        K \in {SECOND, MINUTE, HOUR, DAY}}
    \cup {Tenths(neg, i, t) : neg \in BOOLEAN, i \in {0, 1, 100, 499, 999}, t \in {0, 4, 5, 6, 9}}
    \cup {Num(WEEK), Num(2 * WEEK), YEAR, Negate(YEAR), Times(Num(2), YEAR),
          Times(Num(68), YEAR)}

\* integers around every half multiple of every time constant, both signs
IntegerNumbers ==
    {Tenths(neg, h * (K \div 2) + d, 0) :
        neg \in BOOLEAN, h \in 1..MaxHalfUnits, d \in {-1, 0, 1},
        K \in {SECOND, MINUTE, HOUR, DAY, WEEK}}
    \cup {Tenths(neg, i, 0) : neg \in BOOLEAN, i \in {0, 1, 2, 100, 499, 500, 999}}
    \cup {Times(Tenths(neg, h, 0), YEAR) : neg \in BOOLEAN, h \in 1..MaxHalfUnits}

FormatOptions == {NoOptions, LongOption}

OtherValues == {Undefined, Null, Object, True}

\* a sample of every kind of value and options object
MixedValues ==
    {Str(n \o g \o u) : n \in {"1", "-2.5"}, g \in {"", " ", "  "},
                        u \in {"", "h", "Mins", "YEARS", "x"}}
        \cup {Str(""), Str("invalid"), Str(" 1h"), Str(Repeat("a", DEFAULT_MAX_LENGTH + 1))}
        \cup {Number(Tenths(neg, h * (K \div 2), t)) :
                 neg \in BOOLEAN, h \in 0..3, t \in {0, 5},
                 K \in {SECOND, MINUTE, HOUR, DAY}}
        \cup {Number(NaN), Number(Infinity), Number(NegInfinity)}
        \cup OtherValues

MixedOptions == {NoOptions, LongOption, MaxLengthOption(2), MaxLengthOption(3),
                 [hasMaxLength |-> TRUE, maxLength |-> 3, long |-> TRUE]}

----------------------------------------------------------------------------
(* The calls *)

NoPrev == [op |-> "none", arg |-> Undefined, opts |-> NoOptions, ret |-> NoCall]

Start(values, options) ==
    /\ op = "none"
    /\ arg \in values
    /\ opts \in options
    /\ ret = NoCall
    /\ calls = <<>>
    /\ prev = NoPrev

CallParse ==
    /\ op = "none"
    /\ op' = "parse"
    /\ ret' = parse(arg, opts)
    /\ calls' = <<"parse">>
    /\ UNCHANGED <<arg, opts, prev>>

CallFormat ==
    /\ op = "none"
    /\ op' = "format"
    /\ ret' = format(arg, opts)
    /\ calls' = <<"format">>
    /\ UNCHANGED <<arg, opts, prev>>

CallMs ==
    /\ op = "none"
    /\ op' = "ms"
    /\ ret' = ms(arg, opts)
    /\ calls' = <<"ms">> \o (IF Route(arg) = "throw" THEN <<>> ELSE <<Route(arg)>>)
    /\ UNCHANGED <<arg, opts, prev>>

\* the caller passes the value a call returned to a next call, with the
\* default options
Feed ==
    /\ op # "none"
    /\ ~ret.threw
    /\ prev = NoPrev
    /\ prev' = [op |-> op, arg |-> arg, opts |-> opts, ret |-> ret]
    /\ arg' = ret.value
    /\ opts' = NoOptions
    /\ op' = "none"
    /\ ret' = NoCall
    /\ calls' = <<>>

InitParse ==
    Start({Str(s) : s \in ParseStrings} \cup {Undefined, Null, Number(Num(5))},
          ParseOptions)

SpecParse == InitParse /\ [][CallParse]_vars

InitFormat ==
    Start({Number(x) : x \in FormatNumbers \cup {NaN, Infinity, NegInfinity}}
              \cup {Str("1h"), Undefined},
          FormatOptions)

SpecFormat == InitFormat /\ [][CallFormat]_vars

InitRoundTrip == Start({Number(x) : x \in IntegerNumbers}, FormatOptions)

NextRoundTrip == CallFormat \/ Feed \/ CallParse

SpecRoundTrip == InitRoundTrip /\ [][NextRoundTrip]_vars

Init == Start(MixedValues, MixedOptions)

Next == CallParse \/ CallFormat \/ CallMs

Spec == Init /\ [][Next]_vars

----------------------------------------------------------------------------
(* The error kinds of the specification, told apart by the Error's message *)

IsEmptyInput(r) == r.threw /\ r.message = "Value must be a non-empty string"
IsTooLong(r, limit) ==
    r.threw /\ r.message = "String too long. Maximum length is "
                               \o NatToString(limit) \o " characters"
IsTooLongAny(r) == r.threw /\ Slice(r.message, 1, 15) = "String too long"
IsInvalidFormat(r, input) ==
    r.threw /\ r.message = "Invalid time format: \"" \o input \o "\""
IsUnknownUnit(r, token) ==
    r.threw /\ r.message = "Unknown unit: \"" \o token \o "\""
IsUnknownUnitAny(r) == r.threw /\ Slice(r.message, 1, 12) = "Unknown unit"

\* the limit in force for the call in the state
Limit == IF opts.hasMaxLength THEN opts.maxLength ELSE 100

\* the accepted aliases of each canonical unit and the unit's multiplier
Aliases ==
    [ms |-> {"ms", "msec", "msecs", "millisecond", "milliseconds"},
     s  |-> {"s", "sec", "secs", "second", "seconds"},
     m  |-> {"m", "min", "mins", "minute", "minutes"},
     h  |-> {"h", "hr", "hrs", "hour", "hours"},
     d  |-> {"d", "day", "days"},
     w  |-> {"w", "week", "weeks"},
     y  |-> {"y", "yr", "yrs", "year", "years"}]

Units == DOMAIN Aliases
AllAliases == UNION {Aliases[u] : u \in Units}

\* n times the multiplier of unit u: 1, 1000, 60000, 3600000, 86400000,
\* 604800000, 31557600000
Scaled(n, u) ==
    CASE u = "ms" -> n
      [] u = "s"  -> Times(n, Finite(FALSE, 1, 0))
      [] u = "m"  -> Times(n, Finite(FALSE, 60, 0))
      [] u = "h"  -> Times(n, Finite(FALSE, 3600, 0))
      [] u = "d"  -> Times(n, Finite(FALSE, 86400, 0))
      [] u = "w"  -> Times(n, Finite(FALSE, 604800, 0))
      [] u = "y"  -> Times(n, Finite(FALSE, 31557600, 0))

\* signed magnitudes as written and their values
Magnitudes ==
    {[text |-> "1",    value |-> Finite(FALSE, 0, 10)],
     [text |-> "2",    value |-> Finite(FALSE, 0, 20)],
     [text |-> "10",   value |-> Finite(FALSE, 0, 100)],
     [text |-> "-1",   value |-> Finite(TRUE, 0, 10)],
     [text |-> "1.5",  value |-> Finite(FALSE, 0, 15)],
     [text |-> ".5",   value |-> Finite(FALSE, 0, 5)],
     [text |-> "-0.5", value |-> Finite(TRUE, 0, 5)],
     [text |-> "0",    value |-> Finite(FALSE, 0, 0)],
     [text |-> "-2.5", value |-> Finite(TRUE, 0, 25)]}

LetterCases(a) == {a, toUpperCase(a), Capitalize(a)}

AllLetters(s) == s # "" /\ \A i \in 1..Len(s) : IsLetter(CharAt(s, i))

\* every input n + gap + A, for a magnitude n, a gap of k spaces and an alias
\* A of unit u in any letter case, with the value n times the multiplier of u
AliasInputs ==
    UNION {{[k |-> k, text |-> n.text \o Repeat(" ", k) \o A,
             value |-> Scaled(n.value, u)] :
               k \in 0..MaxSpaces, n \in Magnitudes,
               A \in UNION {LetterCases(a) : a \in Aliases[u]}} : u \in Units}

\* alphabetic tokens that are no alias, after a numeric literal and a gap
UnknownTokenInputs ==
    {[text |-> n.text \o Repeat(" ", k) \o token, token |-> token] :
        k \in 0..MaxSpaces, n \in Magnitudes,
        token \in {t \in UnitTexts : AllLetters(t) /\ toLowerCase(t) \notin AllAliases}}

ParseCall == op = "parse" /\ arg.type = "string" /\ arg.str # ""

----------------------------------------------------------------------------
(* C1: for every alias A of a unit U, in any letter case, with or without   *)
(* one space before it, and every signed magnitude n, parse(n + A) returns  *)
(* n times the multiplier of U; with no unit token parse returns n.         *)
C1_AliasTimesMultiplier ==
    (ParseCall /\ Len(arg.str) <= Limit) =>
        /\ \A e \in AliasInputs :
               (e.k <= 1 /\ arg.str = e.text) => ret = Return(Number(e.value))
        /\ \A n \in Magnitudes :
               arg.str = n.text => ret = Return(Number(n.value))

C1_Witness ==
    /\ op = "parse"
    /\ arg = Str("-2.5 Yrs")
    /\ ret = Return(Number(Finite(TRUE, 78894000, 0)))

(* C2: parse checks its preconditions in order: an empty or non-string      *)
(* input fails with EmptyInput; otherwise an input longer (untrimmed) than  *)
(* maxLength (100 when absent) fails with TooLong, reporting the limit;     *)
(* an input of length at most maxLength never fails with TooLong.           *)
C2_PreconditionOrder ==
    op = "parse" =>
        /\ (arg.type # "string" \/ arg.str = "") => IsEmptyInput(ret)
        /\ (arg.type = "string" /\ arg.str # "" /\ Len(arg.str) > Limit)
               => IsTooLong(ret, Limit)
        /\ (arg.type = "string" /\ arg.str # "" /\ Len(arg.str) <= Limit)
               => ~IsTooLongAny(ret) /\ ~IsEmptyInput(ret)

C2_Witness ==
    /\ op = "parse"
    /\ ~opts.hasMaxLength
    /\ Len(arg.str) = 100
    /\ ~ret.threw

(* C3 as stated: a numeric literal followed by an alphabetic token that is  *)
(* no alias fails with UnknownUnit naming the token.                        *)
C3_Original ==
    (ParseCall /\ Len(arg.str) <= Limit) =>
        \A e \in UnknownTokenInputs :
            trim(arg.str) = e.text => IsUnknownUnit(ret, toLowerCase(e.token))

(* C3 amended: such an input fails with InvalidFormat, echoing the input as *)
(* given, and parse never fails with UnknownUnit.                           *)
C3_UnknownTokenIsInvalidFormat ==
    op = "parse" =>
        /\ ~IsUnknownUnitAny(ret)
        /\ (ParseCall /\ Len(arg.str) <= Limit) =>
               \A e \in UnknownTokenInputs :
                   trim(arg.str) = e.text => IsInvalidFormat(ret, arg.str)

C3_Witness ==
    /\ op = "parse"
    /\ arg = Str("1 fortnights")
    /\ IsInvalidFormat(ret, "1 fortnights")

\* inputs with a character outside the pattern
Malformed ==
    {"invalid", "h", "1.", "1.5.5", "--1", "1h1", "1 h m", "+1h", "1e3",
     "1\th", "- 1h", "1,5h", "1h!", ".", "-"}

(* C9 as stated: number and unit separated by two or more spaces fail with  *)
(* InvalidFormat.                                                           *)
C9_Original ==
    (ParseCall /\ Len(arg.str) <= Limit) =>
        \A e \in AliasInputs :
            (e.k >= 2 /\ arg.str = e.text) => IsInvalidFormat(ret, arg.str)

(* C9 amended: any number of spaces between the numeric literal and the     *)
(* unit token is accepted and does not change the value; an input with      *)
(* another character outside the pattern fails with InvalidFormat.          *)
C9_AnyNumberOfSpaces ==
    (ParseCall /\ Len(arg.str) <= Limit) =>
        /\ \A e \in AliasInputs :
               arg.str = e.text => ret = Return(Number(e.value))
        /\ arg.str \in Malformed => IsInvalidFormat(ret, arg.str)

C9_Witness ==
    /\ op = "parse"
    /\ arg = Str("1  h")
    /\ ret = Return(Number(Finite(FALSE, 3600, 0)))

----------------------------------------------------------------------------
(* What format's output shows *)

FormatCall == op = "format" /\ arg.type = "number" /\ isFinite(arg.num)

\* the output units in the order they are tried, with their multipliers
OutputUnits ==
    <<[name |-> "day",    short |-> "d", mult |-> 86400000],
      [name |-> "hour",   short |-> "h", mult |-> 3600000],
      [name |-> "minute", short |-> "m", mult |-> 60000],
      [name |-> "second", short |-> "s", mult |-> 1000]>>

AtLeast(x, n) == GreaterEq(MathAbs(x), Num(n))

\* the index in OutputUnits of the first unit whose multiplier is at most
\* |x|, or 0 for milliseconds
Selected(x) ==
    IF \E i \in DOMAIN OutputUnits : AtLeast(x, OutputUnits[i].mult)
    THEN CHOOSE i \in DOMAIN OutputUnits :
             /\ AtLeast(x, OutputUnits[i].mult)
             /\ \A j \in 1..(i - 1) : ~AtLeast(x, OutputUnits[j].mult)
    ELSE 0

\* the output without its leading number (sign, digits, point)
RECURSIVE UnitPart(_)
UnitPart(s) ==
    IF s # "" /\ IndexIn("-0123456789.", CharAt(s, 1)) > 0
    THEN UnitPart(Slice(s, 2, Len(s)))
    ELSE s

(* C4: format selects as output unit the first of day, hour, minute, second *)
(* whose multiplier is at most |ms|, and milliseconds when |ms| < 1000,     *)
(* whatever the sign and the style; week and year are never output units.   *)
C4_UnitSelection ==
    FormatCall =>
        LET i == Selected(arg.num)
            unit == UnitPart(ret.value.str)
        IN  /\ ~ret.threw
            /\ i = 0 => unit = (IF opts.long THEN " ms" ELSE "ms")
            /\ (i > 0 /\ ~opts.long) => unit = OutputUnits[i].short
            /\ (i > 0 /\ opts.long) =>
                   unit \in {" " \o OutputUnits[i].name, " " \o OutputUnits[i].name \o "s"}

C4_Witness ==
    /\ op = "format"
    /\ arg = Number(Times(Num(68), YEAR))
    /\ ~opts.long
    /\ ret = Return(Str("24837d"))

(* C5: in long format, for |ms| >= 1000, the unit name carries a trailing s *)
(* exactly when |ms| >= 1.5 times the selected unit's multiplier, decided   *)
(* on the magnitude before rounding, for either sign.                       *)
C5_PluralAtOneAndHalf ==
    (FormatCall /\ opts.long /\ AtLeast(arg.num, 1000)) =>
        LET u == OutputUnits[Selected(arg.num)]
        IN  UnitPart(ret.value.str) =
                " " \o u.name \o (IF AtLeast(arg.num, (u.mult * 3) \div 2) THEN "s" ELSE "")

C5_Witness ==
    /\ op = "format"
    /\ opts.long
    /\ arg = Number(Num(90000))
    /\ ret = Return(Str("2 minutes"))

(* C6 as stated: for every finite x > 0 and both styles, format(-x) is '-'  *)
(* followed by format(x), also when x is a half-integer multiple of the     *)
(* unit.                                                                    *)
C6_SignSymmetric ==
    (FormatCall /\ arg.num.neg) =>
        ret.value.str = "-" \o format(Number(Negate(arg.num)), opts).value.str

\* Math.round of a number below 1000 in magnitude
RoundedMs(x) ==
    IF x.neg THEN Negate(Num(x.lo \div Radix + (IF x.lo % Radix > 5 THEN 1 ELSE 0)))
             ELSE Num(x.lo \div Radix + (IF x.lo % Radix >= 5 THEN 1 ELSE 0))

(* C10 as stated: for |ms| < 1000 format renders round(ms) followed by "ms" *)
(* (short) or " ms" (long), so the numeric part is an integer literal.      *)
C10_MillisecondsRounded ==
    (FormatCall /\ ~AtLeast(arg.num, 1000)) =>
        ret.value.str = NumberToString(RoundedMs(arg.num))
                            \o (IF opts.long THEN " ms" ELSE "ms")

(* C7: ms is a pure router: a string has the outcome of parse, a number     *)
(* (NaN and the infinities included) the outcome of format, and any other   *)
(* value fails with UnsupportedInputType without calling parse or format.   *)
C7_Router ==
    op = "ms" =>
        /\ arg.type = "string" =>
               ret = parse(arg, opts) /\ calls = <<"ms", "parse">>
        /\ arg.type = "number" =>
               ret = format(arg, opts) /\ calls = <<"ms", "format">>
        /\ arg.type \notin {"string", "number"} =>
               ret = Throw("Value must be a string or number") /\ calls = <<"ms">>

C7_Witness ==
    /\ op = "ms"
    /\ arg = Null
    /\ ret = Throw("Value must be a string or number")
    /\ calls = <<"ms">>

----------------------------------------------------------------------------
(* Round trip *)

\* the state holds parse(format(v)) for an integer v
RoundTrip ==
    /\ op = "parse"
    /\ prev.op = "format"
    /\ prev.arg.type = "number"
    /\ isFinite(prev.arg.num)
    /\ prev.arg.num.lo % Radix = 0

SignedHi(x) == IF x.neg THEN -x.hi ELSE x.hi
SignedLo(x) == IF x.neg THEN -x.lo ELSE x.lo

\* |a - b| <= t / Radix
Within(a, b, t) ==
    LET dh == SignedHi(a) - SignedHi(b)
        dl == SignedLo(a) - SignedLo(b)
    IN  /\ dh \in (-(Radix * LoRange))..(Radix * LoRange)
        /\ dh * LoRange + dl \in (-t)..t

\* v is a whole multiple of n
MultipleOf(v, n) ==
    IF n < Limb THEN v.lo % (n * Radix) = 0 /\ (n = 1 \/ v.hi = 0)
    ELSE v.lo = 0 /\ v.hi % (n \div Limb) = 0

====
